---- MODULE Spec2Model ----
(***************************************************************************)
(* Heart transplant matcher: the React component HeartTransplantMatcher    *)
(* (src/src/HeartTransplantMatcher.jsx), its state, its handlers and the   *)
(* pure functions of the matching engine.                                  *)
(*                                                                         *)
(* JavaScript numbers are modelled in fixed point, Scale units to one:     *)
(* a finite number n is [k |-> "fin", v |-> n * Scale], NaN and +/-Infinity *)
(* are values of their own.  Math.pow with the five fractional exponents   *)
(* of the PHM formula is a table over the bases the model uses, together   *)
(* with the IEEE special cases (zero, negative, NaN and infinite bases).   *)
(***************************************************************************)
EXTENDS Integers, Sequences, FiniteSets, Bags, TLC

VARIABLES
    recipients,     \* useState([])  : the parsed recipient rows
    donor,          \* useState({name:'', gender:'', ...})
    matchResults,   \* useState([])  : the ranked match records
    isLoading,      \* useState(false)
    error,          \* useState('')
    file,           \* useState(null): the last selected file
    pending,        \* the files of the handleFileUpload invocations suspended
                    \* at their await (a bag: they may resume in any order)
    engine,         \* the JavaScript engine that runs Array.prototype.sort
    call,           \* a pure function under test, with its arguments
    ret             \* its result ("none" before it is applied)

vars == <<recipients, donor, matchResults, isLoading, error, file, pending,
          engine, call, ret>>

(***************************************************************************)
(* JavaScript values                                                       *)
(***************************************************************************)

\* One unit of a JavaScript number in the model's fixed point.
Scale == 1000

\* A property that is absent from an object (or an empty spreadsheet cell).
Undefined == "<undefined>"

Fin(n) == [k |-> "fin", v |-> n]
NaN == [k |-> "nan", v |-> 0]
Infinity == [k |-> "inf", v |-> 1]
NegInfinity == [k |-> "inf", v |-> -1]

IsNaN(x) == x.k = "nan"
IsFin(x) == x.k = "fin"
IsInf(x) == x.k = "inf"

\* The sign of a number that is not NaN: -1, 0 or 1.
Sign(x) == IF x.v < 0 THEN -1 ELSE IF x.v > 0 THEN 1 ELSE 0

\* x < y of JavaScript: false whenever an operand is NaN.
Lt(x, y) ==
    IF IsNaN(x) \/ IsNaN(y) THEN FALSE
    ELSE IF IsInf(x) THEN x.v < 0 /\ ~(IsInf(y) /\ y.v < 0)
    ELSE IF IsInf(y) THEN y.v > 0
    ELSE x.v < y.v

\* x > y of JavaScript.
Gt(x, y) == Lt(y, x)

\* x * y
Mul(x, y) ==
    IF IsNaN(x) \/ IsNaN(y) THEN NaN
    ELSE IF IsInf(x) \/ IsInf(y)
         THEN IF Sign(x) * Sign(y) = 0 THEN NaN
              ELSE [k |-> "inf", v |-> Sign(x) * Sign(y)]
    ELSE Fin((x.v * y.v) \div Scale)

\* x / y
Div(x, y) ==
    IF IsNaN(x) \/ IsNaN(y) THEN NaN
    ELSE IF IsInf(x)
         THEN IF IsInf(y) THEN NaN
              ELSE [k |-> "inf", v |-> IF y.v < 0 THEN -x.v ELSE x.v]
    ELSE IF IsInf(y) THEN Fin(0)
    ELSE IF y.v = 0
         THEN IF x.v = 0 THEN NaN ELSE [k |-> "inf", v |-> Sign(x)]
    ELSE Fin((x.v * Scale) \div y.v)

\* x + y
Add(x, y) ==
    IF IsNaN(x) \/ IsNaN(y) THEN NaN
    ELSE IF IsInf(x) THEN IF IsInf(y) /\ y.v # x.v THEN NaN ELSE x
    ELSE IF IsInf(y) THEN y
    ELSE Fin(x.v + y.v)

\* x - y
Sub(x, y) ==
    Add(x, IF IsNaN(y) THEN NaN ELSE [k |-> y.k, v |-> -y.v])

\* Math.abs(x)
Abs(x) ==
    IF IsNaN(x) THEN NaN
    ELSE [k |-> x.k, v |-> IF x.v < 0 THEN -x.v ELSE x.v]

\* Math.pow(base, exponent) for positive finite bases: the bases and the
\* exponents (in Scale units) of the PHM formula.
PowTable ==
    <<30, 540>> :> 150 @@ <<30, 1135>> :> 18 @@
    <<40, 540>> :> 175 @@ <<1650, 540>> :> 1310 @@ <<1750, 540>> :> 1352 @@
    <<1800, 540>> :> 1373 @@ <<3000, 540>> :> 1809 @@
    <<40, 1135>> :> 25 @@ <<1650, 1135>> :> 1765 @@ <<1750, 1135>> :> 1887 @@
    <<1800, 1135>> :> 1948 @@ <<3000, 1135>> :> 3479 @@
    <<65000, 610>> :> 12760 @@ <<80000, 610>> :> 14483 @@
    <<81000, 610>> :> 14594 @@ <<85000, 610>> :> 15029 @@
    <<120000, 610>> :> 18548 @@
    <<65000, 315>> :> 3724 @@ <<80000, 315>> :> 3976 @@
    <<81000, 315>> :> 3991 @@ <<85000, 315>> :> 4052 @@
    <<120000, 315>> :> 4517 @@
    <<12000, -320>> :> 451 @@ <<45000, -320>> :> 295 @@ <<50000, -320>> :> 285

\* Math.pow(x, e) for a non-integer exponent e (in Scale units).
Pow(x, e) ==
    IF IsNaN(x) THEN NaN
    ELSE IF IsInf(x) THEN (IF e > 0 THEN Infinity ELSE Fin(0))
    ELSE IF x.v = 0 THEN (IF e > 0 THEN Fin(0) ELSE Infinity)
    ELSE IF x.v < 0 THEN NaN
    ELSE Fin(PowTable[<<x.v, e>>])

\* The decimal strings the model's inputs hold, with their values.
Numerals ==
    "0" :> 0 @@ "-5" :> -5000 @@ "1.8" :> 1800 @@ "3" :> 3000 @@ "4" :> 4000 @@
    "12" :> 12000 @@ "45" :> 45000 @@ "50" :> 50000 @@ "65" :> 65000 @@
    "80" :> 80000 @@ "81" :> 81000 @@ "85" :> 85000 @@ "120" :> 120000 @@
    "165" :> 165000 @@ "175" :> 175000 @@ "180" :> 180000 @@
    "1" :> 1000 @@ "5" :> 5000 @@ "7" :> 7000

\* The longest prefix of a string that is a decimal literal ("" if none).
NumericPrefix(s) ==
    IF s \in DOMAIN Numerals THEN s
    ELSE IF s = "12abc" THEN "12"
    ELSE ""

\* parseFloat(value): the value is converted to a string and its longest
\* numeric prefix is parsed; NaN when there is none (undefined, "", "abc").
ParseFloat(s) ==
    IF NumericPrefix(s) = "" THEN NaN ELSE Fin(Numerals[NumericPrefix(s)])

\* String.prototype.toLowerCase on the gender spellings of the model.
ToLowerCase(s) ==
    CASE s = "Female" -> "female"
      [] s = "FEMALE" -> "female"
      [] s = "Male" -> "male"
      [] s = "MALE" -> "male"
      [] OTHER -> s

\* !value for a string-or-absent value: '' and undefined are falsy.
Falsy(s) == s = "" \/ s = Undefined

(***************************************************************************)
(* The matching engine: pure functions                                     *)
(***************************************************************************)

\* const bloodTypes
bloodTypes == <<"A+", "A-", "B+", "B-", "AB+", "AB-", "O+", "O-">>

BloodTypeSet == {bloodTypes[i] : i \in DOMAIN bloodTypes}

\* The chart with the Rhesus sign of an AB- recipient ignored.
bloodTypeCompatibility_ABNegAcceptsAll ==
    "A+" :> {"A+", "A-", "O+", "O-"} @@
    "A-" :> {"A-", "O-"} @@
    "B+" :> {"B+", "B-", "O+", "O-"} @@
    "B-" :> {"B-", "O-"} @@
    "AB+" :> {"A+", "A-", "B+", "B-", "AB+", "AB-", "O+", "O-"} @@
    "AB-" :> {"A+", "A-", "B+", "B-", "AB+", "AB-", "O+", "O-"} @@
    "O+" :> {"O+", "O-"} @@
    "O-" :> {"O-"}

\* The chart with the O- recipient accepting no donor, not even O-.
bloodTypeCompatibility_ONegAcceptsNone ==
    "A+" :> {"A+", "A-", "O+", "O-"} @@
    "A-" :> {"A-", "O-"} @@
    "B+" :> {"B+", "B-", "O+", "O-"} @@
    "B-" :> {"B-", "O-"} @@
    "AB+" :> {"A+", "A-", "B+", "B-", "AB+", "AB-", "O+", "O-"} @@
    "AB-" :> {"A-", "B-", "AB-", "O-"} @@
    "O+" :> {"O+", "O-"} @@
    "O-" :> {}

\* const bloodTypeCompatibility: recipient type -> the donor types it accepts
bloodTypeCompatibility ==
    "A+" :> {"A+", "A-", "O+", "O-"} @@
    "A-" :> {"A-", "O-"} @@
    "B+" :> {"B+", "B-", "O+", "O-"} @@
    "B-" :> {"B-", "O-"} @@
    "AB+" :> {"A+", "A-", "B+", "B-", "AB+", "AB-", "O+", "O-"} @@
    "AB-" :> {"A-", "B-", "AB-", "O-"} @@
    "O+" :> {"O+", "O-"} @@
    "O-" :> {"O-"}

\* Names every object literal inherits from Object.prototype: looking one of
\* them up in bloodTypeCompatibility yields a member that is neither
\* undefined nor an array.
ObjectPrototypeKeys == {"constructor", "toString", "valueOf", "hasOwnProperty"}

\* calculatePHM throws (a TypeError) when gender has no toLowerCase method.
calculatePHMThrows(gender) == gender = Undefined

\* gender.toLowerCase() === 'female' ? 6.82 : 8.25
lvmCoefficient(gender) ==
    IF ToLowerCase(gender) = "female" THEN Fin(6820) ELSE Fin(8250)

\* gender.toLowerCase() === 'female' ? 10.59 : 11.25
rvmCoefficient(gender) ==
    IF ToLowerCase(gender) = "female" THEN Fin(10590) ELSE Fin(11250)

\* The conversion with a height of exactly 3 taken for centimetres.
heightInM_ThreeIsCentimetres(height) ==
    IF Gt(height, Fin(3 * Scale)) \/ height = Fin(3 * Scale)
    THEN Div(height, Fin(100 * Scale))
    ELSE height

\* height > 3 ? height / 100 : height
heightInM(height) ==
    IF Gt(height, Fin(3 * Scale)) THEN Div(height, Fin(100 * Scale)) ELSE height

\* The formula with the two ventricular masses subtracted.
calculatePHM_Difference(gender, age, height, weight) ==
    LET hM == heightInM(height)
        lvm == Mul(Mul(lvmCoefficient(gender), Pow(hM, 540)), Pow(weight, 610))
        rvm == Mul(Mul(Mul(rvmCoefficient(gender), Pow(age, -320)),
                       Pow(hM, 1135)),
                   Pow(weight, 315))
    IN  Sub(rvm, lvm)

\* calculatePHM(gender, age, height, weight), when it does not throw
calculatePHM(gender, age, height, weight) ==
    LET hM == heightInM(height)
        lvm == Mul(Mul(lvmCoefficient(gender), Pow(hM, 540)), Pow(weight, 610))
        rvm == Mul(Mul(Mul(rvmCoefficient(gender), Pow(age, -320)),
                       Pow(hM, 1135)),
                   Pow(weight, 315))
    IN  Add(rvm, lvm)

\* calculatePHMRatio(donorPHM, recipientPHM)
calculatePHMRatio(donorPHM, recipientPHM) == Div(donorPHM, recipientPHM)

\* determineMatchCategory with the 0.983 boundary put in the lower band.
determineMatchCategory_BoundaryLow(phmRatio) ==
    IF Lt(phmRatio, Fin(863)) THEN "U3 - Severely Undersized"
    ELSE IF Lt(phmRatio, Fin(929)) THEN "U2 - Moderately Undersized"
    ELSE IF Lt(phmRatio, Fin(984)) THEN "U1 - Mildly Undersized"
    ELSE IF Lt(phmRatio, Fin(1039)) THEN "R - Well-Matched"
    ELSE IF Lt(phmRatio, Fin(1111)) THEN "O1 - Mildly Oversized"
    ELSE IF Lt(phmRatio, Fin(1221)) THEN "O2 - Moderately Oversized"
    ELSE "O3 - Severely Oversized"

\* determineMatchCategory with the U3 band ending at 0.85, below the risk
\* threshold.
determineMatchCategory_U3Below85(phmRatio) ==
    IF Lt(phmRatio, Fin(850)) THEN "U3 - Severely Undersized"
    ELSE IF Lt(phmRatio, Fin(929)) THEN "U2 - Moderately Undersized"
    ELSE IF Lt(phmRatio, Fin(983)) THEN "U1 - Mildly Undersized"
    ELSE IF Lt(phmRatio, Fin(1039)) THEN "R - Well-Matched"
    ELSE IF Lt(phmRatio, Fin(1111)) THEN "O1 - Mildly Oversized"
    ELSE IF Lt(phmRatio, Fin(1221)) THEN "O2 - Moderately Oversized"
    ELSE "O3 - Severely Oversized"

\* determineMatchCategory(phmRatio)
determineMatchCategory(phmRatio) ==
    IF Lt(phmRatio, Fin(863)) THEN "U3 - Severely Undersized"
    ELSE IF Lt(phmRatio, Fin(929)) THEN "U2 - Moderately Undersized"
    ELSE IF Lt(phmRatio, Fin(983)) THEN "U1 - Mildly Undersized"
    ELSE IF Lt(phmRatio, Fin(1039)) THEN "R - Well-Matched"
    ELSE IF Lt(phmRatio, Fin(1111)) THEN "O1 - Mildly Oversized"
    ELSE IF Lt(phmRatio, Fin(1221)) THEN "O2 - Moderately Oversized"
    ELSE "O3 - Severely Oversized"

\* determineRiskLevel with the category threshold 0.863 in place of 0.86.
determineRiskLevel_CategoryThreshold(phmRatio) ==
    IF Lt(phmRatio, Fin(863)) THEN "High Risk" ELSE "Acceptable"

\* determineRiskLevel(phmRatio)
determineRiskLevel(phmRatio) ==
    IF Lt(phmRatio, Fin(860)) THEN "High Risk" ELSE "Acceptable"

\* isBloodTypeCompatible throws (a TypeError) when the recipient type names
\* an inherited member: bloodTypeCompatibility[r]?.includes is then not a
\* function.
isBloodTypeCompatibleThrows(donorBloodType, recipientBloodType) ==
    /\ ~Falsy(donorBloodType)
    /\ ~Falsy(recipientBloodType)
    /\ recipientBloodType \in ObjectPrototypeKeys

\* isBloodTypeCompatible(donorBloodType, recipientBloodType), when it does
\* not throw
isBloodTypeCompatible(donorBloodType, recipientBloodType) ==
    IF Falsy(donorBloodType) \/ Falsy(recipientBloodType) THEN FALSE
    ELSE IF recipientBloodType \in DOMAIN bloodTypeCompatibility
         THEN donorBloodType \in bloodTypeCompatibility[recipientBloodType]
    ELSE FALSE

(***************************************************************************)
(* The ABO-only version of the component (src/unnamed/part_001, from line  *)
(* 461): its compatibility functions, its match records and its comparator *)
(***************************************************************************)

\* null
Null == "<null>"

\* bloodType.replace(/[+-]/, ''): the first sign removed, on the blood type
\* strings of the model.
StripSign(s) ==
    CASE s \in {"A+", "A-"} -> "A"
      [] s \in {"B+", "B-"} -> "B"
      [] s \in {"AB+", "AB-"} -> "AB"
      [] s \in {"O+", "O-"} -> "O"
      [] s = "a+" -> "a"
      [] OTHER -> s

\* bloodType.includes('+')
IncludesPlus(s) == s \in {"A+", "B+", "AB+", "O+", "a+"}

\* getABOType(bloodType)
getABOType(bloodType) ==
    IF Falsy(bloodType) THEN Null
    ELSE IF StripSign(bloodType) \in {"A", "B", "AB", "O"} THEN StripSign(bloodType)
    ELSE Null

\* The Rhesus test with donor and recipient exchanged: a Rh- donor for a
\* Rh+ recipient counts as the mismatch.
hasRhesusMismatch_Reversed(donorBloodType, recipientBloodType) ==
    IF Falsy(donorBloodType) \/ Falsy(recipientBloodType) THEN FALSE
    ELSE LET donorRhesus == IF IncludesPlus(donorBloodType) THEN "+" ELSE "-"
             recipientRhesus == IF IncludesPlus(recipientBloodType) THEN "+" ELSE "-"
         IN  recipientRhesus = "+" /\ donorRhesus = "-"

\* hasRhesusMismatch(donorBloodType, recipientBloodType)
hasRhesusMismatch(donorBloodType, recipientBloodType) ==
    IF Falsy(donorBloodType) \/ Falsy(recipientBloodType) THEN FALSE
    ELSE LET donorRhesus == IF IncludesPlus(donorBloodType) THEN "+" ELSE "-"
             recipientRhesus == IF IncludesPlus(recipientBloodType) THEN "+" ELSE "-"
         IN  recipientRhesus = "-" /\ donorRhesus = "+"

\* const aboCompatibility: recipient group -> the donor groups it accepts
aboCompatibility ==
    "A" :> {"A", "O"} @@
    "B" :> {"B", "O"} @@
    "AB" :> {"A", "B", "AB", "O"} @@
    "O" :> {"O"}

\* The ABO verdict withheld from a pair with a Rhesus mismatch (the rule of
\* the full chart).
isABOCompatible_RhesusExcludes(donorBloodType, recipientBloodType) ==
    LET donorABO == getABOType(donorBloodType)
        recipientABO == getABOType(recipientBloodType)
    IN  IF donorABO = Null \/ recipientABO = Null THEN FALSE
        ELSE /\ donorABO \in aboCompatibility[recipientABO]
             /\ ~hasRhesusMismatch(donorBloodType, recipientBloodType)

\* isABOCompatible(donorBloodType, recipientBloodType)
isABOCompatible(donorBloodType, recipientBloodType) ==
    LET donorABO == getABOType(donorBloodType)
        recipientABO == getABOType(recipientBloodType)
    IN  IF donorABO = Null \/ recipientABO = Null THEN FALSE
        ELSE donorABO \in aboCompatibility[recipientABO]

\* parseInt(value): the integer part of the numeric prefix, NaN when there
\* is none.
ParseInt(s) ==
    IF NumericPrefix(s) = "" THEN NaN
    ELSE LET n == Numerals[NumericPrefix(s)]
         IN  Fin(IF n >= 0 THEN (n \div Scale) * Scale
                 ELSE -(((-n) \div Scale) * Scale))

\* A Date object with the given time value; the time value of an Invalid
\* Date is NaN.
Date(t) == [k |-> "date", time |-> t]
InvalidDate == Date(NaN)

\* A worksheet cell that is empty: eachCell skips it and the row object has
\* no dateadded property.
NoDate == [k |-> "undefined", time |-> NaN]

\* parseInt(recipient.status) || 7
recordStatus(recipient) ==
    LET parsed == ParseInt(recipient.status)
    IN  IF IsNaN(parsed) \/ parsed.v = 0 THEN Fin(7 * Scale) ELSE parsed

\* recipient.dateadded instanceof Date ? recipient.dateadded
\*                                    : new Date(recipient.dateadded)
recordDateAdded(recipient) ==
    IF recipient.dateadded.k = "date" THEN recipient.dateadded ELSE InvalidDate

\* The match record of one recipient in the ABO-only version.
MatchRecordABO(d, donorPHM, recipient) ==
    LET recipientPHM == calculatePHM(recipient.gender,
                                     ParseFloat(recipient.age),
                                     ParseFloat(recipient.height),
                                     ParseFloat(recipient.weight))
        phmRatio == calculatePHMRatio(donorPHM, recipientPHM)
    IN  [id |-> recipient.id,
         name |-> recipient.name,
         gender |-> recipient.gender,
         age |-> recipient.age,
         height |-> recipient.height,
         weight |-> recipient.weight,
         bloodType |-> recipient.bloodType,
         dateadded |-> recipient.dateadded,
         donorPHM |-> donorPHM,
         recipientPHM |-> recipientPHM,
         phmRatio |-> phmRatio,
         matchCategory |-> determineMatchCategory(phmRatio),
         riskLevel |-> determineRiskLevel(phmRatio),
         aboMatch |-> isABOCompatible(d.bloodType, recipient.bloodType),
         rhesusWarning |-> hasRhesusMismatch(d.bloodType, recipient.bloodType),
         status |-> recordStatus(recipient),
         dateAdded |-> recordDateAdded(recipient)]

\* The comparator with the blood-type stage put before the risk stage.
compareMatchesABO_ABOFirst(a, b) ==
    IF a.aboMatch # b.aboMatch
    THEN (IF a.aboMatch THEN Fin(-Scale) ELSE Fin(Scale))
    ELSE IF a.riskLevel # b.riskLevel
    THEN (IF a.riskLevel = "Acceptable" THEN Fin(-Scale) ELSE Fin(Scale))
    ELSE IF a.status # b.status
    THEN Sub(a.status, b.status)
    ELSE Sub(a.dateAdded.time, b.dateAdded.time)

\* The comparator with the date stage put before the status stage.
compareMatchesABO_DateBeforeStatus(a, b) ==
    IF a.riskLevel # b.riskLevel
    THEN (IF a.riskLevel = "Acceptable" THEN Fin(-Scale) ELSE Fin(Scale))
    ELSE IF a.aboMatch # b.aboMatch
    THEN (IF a.aboMatch THEN Fin(-Scale) ELSE Fin(Scale))
    ELSE IF \/ IsNaN(a.dateAdded.time) \/ IsNaN(b.dateAdded.time)
            \/ a.dateAdded.time # b.dateAdded.time
    THEN Sub(a.dateAdded.time, b.dateAdded.time)
    ELSE Sub(a.status, b.status)

\* The comparator handed to sort in the ABO-only version.
compareMatchesABO(a, b) ==
    IF a.riskLevel # b.riskLevel
    THEN (IF a.riskLevel = "Acceptable" THEN Fin(-Scale) ELSE Fin(Scale))
    ELSE IF a.aboMatch # b.aboMatch
    THEN (IF a.aboMatch THEN Fin(-Scale) ELSE Fin(Scale))
    ELSE IF a.status # b.status
    THEN Sub(a.status, b.status)
    ELSE Sub(a.dateAdded.time, b.dateAdded.time)

(***************************************************************************)
(* The match builder and the ranker                                        *)
(***************************************************************************)

\* The match record of one recipient (the object literal returned by the
\* recipients.map callback): the recipient's own fields and the derived ones.
MatchRecord(d, donorPHM, recipient) ==
    LET recipientPHM == calculatePHM(recipient.gender,
                                     ParseFloat(recipient.age),
                                     ParseFloat(recipient.height),
                                     ParseFloat(recipient.weight))
        phmRatio == calculatePHMRatio(donorPHM, recipientPHM)
    IN  [id |-> recipient.id,
         name |-> recipient.name,
         gender |-> recipient.gender,
         age |-> recipient.age,
         height |-> recipient.height,
         weight |-> recipient.weight,
         bloodType |-> recipient.bloodType,
         donorPHM |-> donorPHM,
         recipientPHM |-> recipientPHM,
         phmRatio |-> phmRatio,
         matchCategory |-> determineMatchCategory(phmRatio),
         riskLevel |-> determineRiskLevel(phmRatio),
         bloodTypeMatch |-> isBloodTypeCompatible(d.bloodType, recipient.bloodType),
         exactBloodTypeMatch |-> d.bloodType = recipient.bloodType]

\* The map callback throws for this recipient.
RecordThrows(d, recipient) ==
    \/ calculatePHMThrows(recipient.gender)
    \/ isBloodTypeCompatibleThrows(d.bloodType, recipient.bloodType)

\* The comparator handed to sort: a negative, zero or positive number, or
\* NaN.
compareMatches(a, b) ==
    IF a.bloodTypeMatch # b.bloodTypeMatch
    THEN (IF a.bloodTypeMatch THEN Fin(-Scale) ELSE Fin(Scale))
    ELSE IF a.exactBloodTypeMatch # b.exactBloodTypeMatch
    THEN (IF a.exactBloodTypeMatch THEN Fin(-Scale) ELSE Fin(Scale))
    ELSE IF a.riskLevel # b.riskLevel
    THEN (IF a.riskLevel = "Acceptable" THEN Fin(-Scale) ELSE Fin(Scale))
    ELSE Sub(Abs(Sub(a.phmRatio, Fin(Scale))), Abs(Sub(b.phmRatio, Fin(Scale))))

\* The first version's comparator with the risk stage left out: closeness
\* to 1.0 only.
compareMatchesV1_ProximityOnly(a, b) ==
    Sub(Abs(Sub(a.phmRatio, Fin(Scale))), Abs(Sub(b.phmRatio, Fin(Scale))))

\* The comparator of the first version: risk level, then closeness of the
\* ratio to 1.0.
compareMatchesV1(a, b) ==
    IF a.riskLevel # b.riskLevel
    THEN (IF a.riskLevel = "Acceptable" THEN Fin(-Scale) ELSE Fin(Scale))
    ELSE Sub(Abs(Sub(a.phmRatio, Fin(Scale))), Abs(Sub(b.phmRatio, Fin(Scale))))

\* What Array.prototype.sort makes of the comparator's result: its sign,
\* NaN counting as 0.  The comparator is the one of the version that built
\* the records (only the ABO-only version's records have aboMatch, only the
\* full-chart version's have bloodTypeMatch).
SortCompare(a, b) ==
    LET v == IF "aboMatch" \in DOMAIN a THEN compareMatchesABO(a, b)
             ELSE IF "bloodTypeMatch" \in DOMAIN a THEN compareMatches(a, b)
             ELSE compareMatchesV1(a, b)
    IN  IF IsNaN(v) THEN 0 ELSE Sign(v)

\* s with its first n elements reversed.
ReverseRange(s, n) ==
    [i \in 1..Len(s) |-> IF i <= n THEN s[n + 1 - i] ELSE s[i]]

\* V8 (TimSort), CountAndMakeRun: the length of the run that starts the
\* array, from the element at position idx on; desc tells a strictly
\* descending run.
RECURSIVE RunLength(_, _, _)
RunLength(s, idx, desc) ==
    IF idx > Len(s) THEN Len(s)
    ELSE LET order == SortCompare(s[idx], s[idx - 1])
         IN  IF (desc /\ order >= 0) \/ (~desc /\ order < 0) THEN idx - 1
             ELSE RunLength(s, idx + 1, desc)

\* V8, BinaryInsertionSort: where pivot goes among the sorted s[left+1 ..
\* right] (0-based bounds, as in the engine).
RECURSIVE BinarySearch(_, _, _, _)
BinarySearch(s, pivot, left, right) ==
    IF left < right
    THEN LET mid == left + ((right - left) \div 2)
         IN  IF SortCompare(pivot, s[mid + 1]) < 0
             THEN BinarySearch(s, pivot, left, mid)
             ELSE BinarySearch(s, pivot, mid + 1, right)
    ELSE left

\* The move with the moved element not saved before the shift: the element
\* at position to is kept and the moved one is lost.
MoveTo_ElementLost(s, from, to) ==
    [i \in 1..Len(s) |->
        IF i <= to \/ i > from THEN s[i]
        ELSE s[i - 1]]

\* s with the element at position from moved to position to (to <= from).
MoveTo(s, from, to) ==
    [i \in 1..Len(s) |->
        IF i < to \/ i > from THEN s[i]
        ELSE IF i = to THEN s[from]
        ELSE s[i - 1]]

\* V8, BinaryInsertionSort from position start (1-based) to the end.
RECURSIVE BinaryInsertionSort(_, _)
BinaryInsertionSort(s, start) ==
    IF start > Len(s) THEN s
    ELSE BinaryInsertionSort(
            MoveTo(s, start, BinarySearch(s, s[start], 0, start - 1) + 1),
            start + 1)

\* V8's sort with a run of equal elements taken for a descending one (and
\* reversed).
SortV8_TiesDescending(s) ==
    IF Len(s) < 2 THEN s
    ELSE LET desc == SortCompare(s[2], s[1]) <= 0
             run == RunLength(s, 3, desc)
             made == IF desc THEN ReverseRange(s, run) ELSE s
         IN  BinaryInsertionSort(made, run + 1)

\* V8's sort of an array shorter than its minimal run: one run is counted
\* (and reversed when descending), the rest is inserted into it.
SortV8(s) ==
    IF Len(s) < 2 THEN s
    ELSE LET desc == SortCompare(s[2], s[1]) < 0
             run == RunLength(s, 3, desc)
             made == IF desc THEN ReverseRange(s, run) ELSE s
         IN  BinaryInsertionSort(made, run + 1)

\* SpiderMonkey's insertion sort of a short array: the position the item at
\* i reaches, moving left past every element that compares greater.
RECURSIVE InsertionPoint(_, _, _)
\* The insertion moving left past the elements that compare equal as well.
InsertionPoint_PastEqual(s, item, j) ==
    IF j >= 1 /\ SortCompare(s[j], item) >= 0
    THEN InsertionPoint(s, item, j - 1)
    ELSE j + 1

InsertionPoint(s, item, j) ==
    IF j >= 1 /\ SortCompare(s[j], item) > 0
    THEN InsertionPoint(s, item, j - 1)
    ELSE j + 1

RECURSIVE InsertionSort(_, _)
InsertionSort(s, i) ==
    IF i > Len(s) THEN s
    ELSE InsertionSort(MoveTo(s, i, InsertionPoint(s, s[i], i - 1)), i + 1)

SortSpiderMonkey(s) == InsertionSort(s, 2)

\* [...results].sort(comparator) under the given engine.
SortResults(e, results) ==
    IF e = "v8" THEN SortV8(results) ELSE SortSpiderMonkey(results)

\* err.message of the TypeError a recipient raises, as the engine words it.
ErrorMessage(e, recipient) ==
    IF calculatePHMThrows(recipient.gender)
    THEN (IF e = "v8"
          THEN "Cannot read properties of undefined (reading 'toLowerCase')"
          ELSE "gender is undefined")
    ELSE (IF e = "v8"
          THEN "bloodTypeCompatibility[recipientBloodType]?.includes is not a function"
          ELSE "bloodTypeCompatibility[recipientBloodType]?.includes is not a function")

(***************************************************************************)
(* The component's state after construction                                *)
(***************************************************************************)

\* useState({name: '', gender: '', age: '', height: '', weight: '',
\* bloodType: ''})
InitDonor ==
    [name |-> "", gender |-> "", age |-> "", height |-> "", weight |-> "",
     bloodType |-> ""]

\* No pure function is under test.
NoCall == [fn |-> "none"]
NoRet == [done |-> FALSE]

\* The JavaScript engines whose Array.prototype.sort the model knows.
Engines == {"v8", "spidermonkey"}

\* The useState initial values of HeartTransplantMatcher.
Constructed ==
    /\ recipients = <<>>
    /\ donor = InitDonor
    /\ matchResults = <<>>
    /\ isLoading = FALSE
    /\ error = ""
    /\ file = Undefined
    /\ pending = EmptyBag

appVars == <<recipients, donor, matchResults, isLoading, error, file, pending,
             engine>>

(***************************************************************************)
(* Inputs of the handlers                                                  *)
(***************************************************************************)

\* The values the change event of each donor field delivers in the model.
DonorValues ==
    [name |-> {"", "D"},
     gender |-> {"", "male"},
     age |-> {"", "45", "abc", "12abc"},
     height |-> {"", "180"},
     weight |-> {"", "80"},
     bloodType |-> {"", "O-", "A+"}]

\* A worksheet row, keyed by the lower-cased headers.
Row(id, gender, age, height, weight, bloodtype) ==
    [id |-> id, name |-> id, gender |-> gender, age |-> age, height |-> height,
     weight |-> weight, bloodtype |-> bloodtype]

AllHeaders == {"id", "name", "gender", "age", "height", "weight", "bloodtype"}

\* The workbooks the user can select.  worksheet: the workbook has a first
\* worksheet; corrupt: reading it throws.
Workbooks ==
    {[name |-> "list.xlsx", worksheet |-> TRUE, corrupt |-> FALSE,
      headers |-> AllHeaders,
      rows |-> <<Row("R1", "male", "50", "175", "85", "O-"),
                 Row("R2", "male", "abc", "180", "80", "O-"),
                 Row("R3", "male", "45", "180", "80", "O-")>>],
     [name |-> "mixed.xlsx", worksheet |-> TRUE, corrupt |-> FALSE,
      headers |-> AllHeaders,
      rows |-> <<Row("R4", "male", "45", "175", "120", "A+"),
                 Row("R5", Undefined, "50", "165", "65", "AB+"),
                 Row("R1", "male", "50", "175", "85", "O-")>>],
     [name |-> "empty.xlsx", worksheet |-> FALSE, corrupt |-> FALSE,
      headers |-> {}, rows |-> <<>>]}

\* e.target.files[0] when the file dialog was cancelled: no file.
NoFile ==
    [name |-> Undefined, worksheet |-> FALSE, corrupt |-> FALSE,
     headers |-> {}, rows |-> <<>>]

\* The uploads that may be suspended at their await at the same time.
MaxPending == 2

(***************************************************************************)
(* The handlers                                                            *)
(***************************************************************************)

\* array.join(', ')
RECURSIVE Join(_)
Join(seq) ==
    IF seq = <<>> THEN ""
    ELSE IF Len(seq) = 1 THEN seq[1]
    ELSE seq[1] \o ", " \o Join(Tail(seq))

\* handleFileUpload up to its first await: setFile(file); setError('');
\* if (!file) return; setIsLoading(true); await file.arrayBuffer().
\* No file is selected when the user cancels the dialog.
handleFileUploadStart(f) ==
    /\ file' = f.name
    /\ error' = ""
    /\ IF f = NoFile
       THEN UNCHANGED <<isLoading, pending>>
       ELSE /\ BagCardinality(pending) < MaxPending
            /\ isLoading' = TRUE
            /\ pending' = pending (+) SetToBag({f})
    /\ UNCHANGED <<recipients, donor, matchResults, engine, call, ret>>

requiredColumns == <<"id", "name", "gender", "age", "height", "weight">>

\* The rowData object of a worksheet row, with the blood type field name
\* normalised (rowData.bloodtype && !rowData.bloodType).
RowData(row) ==
    [id |-> row.id, name |-> row.name, gender |-> row.gender, age |-> row.age,
     height |-> row.height, weight |-> row.weight,
     bloodType |-> IF Falsy(row.bloodtype) THEN Undefined ELSE row.bloodtype]

\* The upload whose catch block does not reset isLoading.
handleFileUploadFinish_CatchKeepsLoading(f) ==
    /\ BagIn(f, pending)
    /\ LET missingColumns ==
               SelectSeq(requiredColumns, LAMBDA c : c \notin f.headers)
           jsonData == [r \in DOMAIN f.rows |-> RowData(f.rows[r])]
       IN  /\ pending' = pending (-) SetToBag({f})
           /\ isLoading' = (f.corrupt /\ isLoading)
           /\ IF f.corrupt
              THEN /\ error' = "Error processing file: Unknown error"
                   /\ UNCHANGED recipients
              ELSE IF ~f.worksheet
              THEN /\ error' = "No worksheet found in the Excel file."
                   /\ UNCHANGED recipients
              ELSE IF missingColumns # <<>>
              THEN /\ error' = "Missing required columns: " \o Join(missingColumns)
                   /\ UNCHANGED recipients
              ELSE IF jsonData = <<>>
              THEN /\ error' = "The uploaded file contains no data."
                   /\ UNCHANGED recipients
              ELSE /\ error' = (IF "bloodtype" \notin f.headers
                                THEN "Warning: No \"bloodType\" column found. Blood type matching will be disabled."
                                ELSE error)
                   /\ recipients' = jsonData
    /\ UNCHANGED <<donor, matchResults, file, engine, call, ret>>

\* The upload that sets the recipients before it tests for an empty
\* worksheet, so a worksheet without data rows empties the list.
handleFileUploadFinish_FailureClears(f) ==
    /\ BagIn(f, pending)
    /\ LET missingColumns ==
               SelectSeq(requiredColumns, LAMBDA c : c \notin f.headers)
           jsonData == [r \in DOMAIN f.rows |-> RowData(f.rows[r])]
       IN  /\ pending' = pending (-) SetToBag({f})
           /\ isLoading' = FALSE
           /\ IF f.corrupt
              THEN /\ error' = "Error processing file: Unknown error"
                   /\ UNCHANGED recipients
              ELSE IF ~f.worksheet
              THEN /\ error' = "No worksheet found in the Excel file."
                   /\ UNCHANGED recipients
              ELSE IF missingColumns # <<>>
              THEN /\ error' = "Missing required columns: " \o Join(missingColumns)
                   /\ UNCHANGED recipients
              ELSE IF jsonData = <<>>
              THEN /\ error' = "The uploaded file contains no data."
                   /\ recipients' = jsonData
              ELSE /\ error' = (IF "bloodtype" \notin f.headers
                                THEN "Warning: No \"bloodType\" column found. Blood type matching will be disabled."
                                ELSE error)
                   /\ recipients' = jsonData
    /\ UNCHANGED <<donor, matchResults, file, engine, call, ret>>

\* handleFileUpload after its awaits, for a suspended invocation on file f.
handleFileUploadFinish(f) ==
    /\ BagIn(f, pending)
    /\ LET missingColumns ==
               SelectSeq(requiredColumns, LAMBDA c : c \notin f.headers)
           jsonData == [r \in DOMAIN f.rows |-> RowData(f.rows[r])]
       IN  /\ pending' = pending (-) SetToBag({f})
           /\ isLoading' = FALSE
           /\ IF f.corrupt
              THEN /\ error' = "Error processing file: Unknown error"
                   /\ UNCHANGED recipients
              ELSE IF ~f.worksheet
              THEN /\ error' = "No worksheet found in the Excel file."
                   /\ UNCHANGED recipients
              ELSE IF missingColumns # <<>>
              THEN /\ error' = "Missing required columns: " \o Join(missingColumns)
                   /\ UNCHANGED recipients
              ELSE IF jsonData = <<>>
              THEN /\ error' = "The uploaded file contains no data."
                   /\ UNCHANGED recipients
              ELSE /\ error' = (IF "bloodtype" \notin f.headers
                                THEN "Warning: No \"bloodType\" column found. Blood type matching will be disabled."
                                ELSE error)
                   /\ recipients' = jsonData
    /\ UNCHANGED <<donor, matchResults, file, engine, call, ret>>

\* handleDonorChange: setDonor(prev => ({ ...prev, [name]: value }))
handleDonorChange(name, value) ==
    /\ donor' = [donor EXCEPT ![name] = value]
    /\ UNCHANGED <<recipients, matchResults, isLoading, error, file, pending,
                   engine, call, ret>>

\* The donor fields the first version of the component required.
donorFields_NoBloodType == <<"name", "gender", "age", "height", "weight">>

donorFields == <<"name", "gender", "age", "height", "weight", "bloodType">>

numericFields == <<"age", "height", "weight">>

\* The donor fields handleCalculateMatches finds missing.
missingFields(d) == SelectSeq(donorFields, LAMBDA fld : Falsy(d[fld]))

\* The numeric validation left out.
notNumbers_Unchecked(d) == <<>>

\* The numeric donor fields whose value parseFloat cannot read.
notNumbers(d) == SelectSeq(numericFields, LAMBDA fld : IsNaN(ParseFloat(d[fld])))

\* The recipients whose map callback throws.
throwing(d, rs) == SelectSeq(rs, LAMBDA r : RecordThrows(d, r))

\* The results array of a run in which no callback throws.
BuildResults(d, rs) ==
    LET donorPHM == calculatePHM(d.gender, ParseFloat(d.age),
                                 ParseFloat(d.height), ParseFloat(d.weight))
    IN  [i \in DOMAIN rs |-> MatchRecord(d, donorPHM, rs[i])]

\* The handler sorting the recipients themselves instead of a mapped copy:
\* after a ranking the recipients list is in ranked order.
handleCalculateMatches_SortsInPlace ==
    /\ ~isLoading
    /\ IF missingFields(donor) # <<>>
       THEN /\ error' = "Please fill in all donor fields"
            /\ UNCHANGED <<matchResults, isLoading>>
       ELSE IF notNumbers(donor) # <<>>
       THEN /\ error' = "Donor " \o notNumbers(donor)[1] \o " must be a number"
            /\ UNCHANGED <<matchResults, isLoading>>
       ELSE IF recipients = <<>>
       THEN /\ error' = "Please upload a recipient list first"
            /\ UNCHANGED <<matchResults, isLoading>>
       ELSE IF throwing(donor, recipients) # <<>>
       THEN /\ error' = "Error calculating matches: "
                            \o ErrorMessage(engine, throwing(donor, recipients)[1])
            /\ isLoading' = FALSE
            /\ UNCHANGED matchResults
       ELSE /\ matchResults' = SortResults(engine, BuildResults(donor, recipients))
            /\ error' = ""
            /\ isLoading' = FALSE
    /\ recipients' = (IF matchResults' = matchResults \/ recipients = <<>>
                      THEN recipients
                      ELSE [i \in DOMAIN matchResults' |->
                              [fld \in DOMAIN recipients[1] |->
                                  matchResults'[i][fld]]])
    /\ UNCHANGED <<donor, file, pending, engine, call, ret>>

\* handleCalculateMatches, the onClick of the Calculate button (disabled
\* while isLoading).  The first message is kept up to the list of the
\* missing fields that the code appends to it.
handleCalculateMatches ==
    /\ ~isLoading
    /\ IF missingFields(donor) # <<>>
       THEN /\ error' = "Please fill in all donor fields"
            /\ UNCHANGED <<matchResults, isLoading>>
       ELSE IF notNumbers(donor) # <<>>
       THEN /\ error' = "Donor " \o notNumbers(donor)[1] \o " must be a number"
            /\ UNCHANGED <<matchResults, isLoading>>
       ELSE IF recipients = <<>>
       THEN /\ error' = "Please upload a recipient list first"
            /\ UNCHANGED <<matchResults, isLoading>>
       ELSE IF throwing(donor, recipients) # <<>>
       THEN /\ error' = "Error calculating matches: "
                            \o ErrorMessage(engine, throwing(donor, recipients)[1])
            /\ isLoading' = FALSE
            /\ UNCHANGED matchResults
       ELSE /\ matchResults' = SortResults(engine, BuildResults(donor, recipients))
            /\ error' = ""
            /\ isLoading' = FALSE
    /\ UNCHANGED <<recipients, donor, file, pending, engine, call, ret>>

\* The recipients whose map callback throws in the ABO-only version.
throwingABO(d, rs) == SelectSeq(rs, LAMBDA r : calculatePHMThrows(r.gender))

\* The results array of a run of the ABO-only version in which no callback
\* throws.
BuildResultsABO(d, rs) ==
    LET donorPHM == calculatePHM(d.gender, ParseFloat(d.age),
                                 ParseFloat(d.height), ParseFloat(d.weight))
    IN  [i \in DOMAIN rs |-> MatchRecordABO(d, donorPHM, rs[i])]

\* let rhesusWarnings: the records of the run with a Rhesus warning.
rhesusWarnings(results) ==
    Cardinality({i \in DOMAIN results : results[i].rhesusWarning})

\* The warning a run with n Rhesus warnings ends with.
RhesusWarningMessage(n) ==
    "Warning: " \o ToString(n)
        \o " recipient(s) have Rhesus incompatibility (Rh- recipient with Rh+ donor). Consider these matches carefully."

\* handleCalculateMatches of the ABO-only version (the Calculate button is
\* disabled while isLoading).  The first message is kept up to the list of
\* the missing fields.
handleCalculateMatchesABO ==
    /\ ~isLoading
    /\ IF missingFields(donor) # <<>>
       THEN /\ error' = "Please fill in all donor fields"
            /\ UNCHANGED <<matchResults, isLoading>>
       ELSE IF notNumbers(donor) # <<>>
       THEN /\ error' = "Donor " \o notNumbers(donor)[1] \o " must be a number"
            /\ UNCHANGED <<matchResults, isLoading>>
       ELSE IF recipients = <<>>
       THEN /\ error' = "Please upload a recipient list first"
            /\ UNCHANGED <<matchResults, isLoading>>
       ELSE IF throwingABO(donor, recipients) # <<>>
       THEN /\ error' = "Error calculating matches: "
                            \o ErrorMessage(engine, throwingABO(donor, recipients)[1])
            /\ isLoading' = FALSE
            /\ UNCHANGED matchResults
       ELSE LET results == BuildResultsABO(donor, recipients)
            IN  /\ matchResults' = SortResults(engine, results)
                /\ error' = (IF rhesusWarnings(results) > 0
                             THEN RhesusWarningMessage(rhesusWarnings(results))
                             ELSE "")
                /\ isLoading' = FALSE
    /\ UNCHANGED <<recipients, donor, file, pending, engine, call, ret>>

Init ==
    /\ Constructed
    /\ engine \in Engines
    /\ call = NoCall
    /\ ret = NoRet

Next ==
    \/ \E f \in Workbooks \cup {NoFile} : handleFileUploadStart(f)
    \/ \E f \in Workbooks : handleFileUploadFinish(f)
    \/ \E name \in DOMAIN DonorValues :
          \E value \in DonorValues[name] : handleDonorChange(name, value)
    \/ handleCalculateMatches

Spec == Init /\ [][Next]_vars

(***************************************************************************)
(* Pure functions applied to inputs drawn from bounded sets                *)
(***************************************************************************)

\* The largest finite ratio, in Scale units, handed to the classifiers.
MaxRatioIn == 1300

RatioInputs == {Fin(r) : r \in 0..MaxRatioIn} \cup {NaN, Infinity}

InitClassify ==
    /\ Constructed
    /\ engine = "v8"
    /\ call \in {[fn |-> "classify", phmRatio |-> r] : r \in RatioInputs}
    /\ ret = NoRet

\* const matchCategory = determineMatchCategory(phmRatio);
\* const riskLevel = determineRiskLevel(phmRatio);
Classify ==
    /\ call.fn = "classify"
    /\ ~ret.done
    /\ ret' = [done |-> TRUE,
               matchCategory |-> determineMatchCategory(call.phmRatio),
               riskLevel |-> determineRiskLevel(call.phmRatio)]
    /\ UNCHANGED <<appVars, call>>

NextClassify == Classify

SpecClassify == InitClassify /\ [][NextClassify]_vars

\* Blood type values a donor field or a spreadsheet cell can hold.
BloodTypeInputs ==
    BloodTypeSet \cup {"", Undefined, "X", "a+", "constructor"}

InitCompat ==
    /\ Constructed
    /\ engine = "v8"
    /\ call \in {[fn |-> "compat", donorBloodType |-> d, recipientBloodType |-> r] :
                    d \in BloodTypeInputs, r \in BloodTypeInputs}
    /\ ret = NoRet

\* isBloodTypeCompatible(donorBloodType, recipientBloodType)
Compat ==
    /\ call.fn = "compat"
    /\ ~ret.done
    /\ ret' = IF isBloodTypeCompatibleThrows(call.donorBloodType,
                                             call.recipientBloodType)
              THEN [done |-> TRUE, threw |-> TRUE, value |-> FALSE]
              ELSE [done |-> TRUE, threw |-> FALSE,
                    value |-> isBloodTypeCompatible(call.donorBloodType,
                                                    call.recipientBloodType)]
    /\ UNCHANGED <<appVars, call>>

NextCompat == Compat

SpecCompat == InitCompat /\ [][NextCompat]_vars

\* Gender values a donor field or a spreadsheet cell can hold.
GenderInputs ==
    {"male", "female", "Male", "MALE", "Female", "FEMALE", "other", Undefined}

AgeInputs == {Fin(45000), Fin(50000), Fin(0), Fin(-5000), NaN}
HeightInputs == {Fin(180000), Fin(1800), Fin(3000), Fin(0), Fin(-5000)}
WeightInputs == {Fin(80000), Fin(65000), Fin(0), Fin(-5000)}

InitPHM ==
    /\ Constructed
    /\ engine = "v8"
    /\ call \in {[fn |-> "phm", gender |-> g, age |-> a, height |-> h, weight |-> w] :
                    g \in GenderInputs, a \in AgeInputs, h \in HeightInputs,
                    w \in WeightInputs}
    /\ ret = NoRet

\* calculatePHM(gender, age, height, weight)
ApplyPHM ==
    /\ call.fn = "phm"
    /\ ~ret.done
    /\ ret' = IF calculatePHMThrows(call.gender)
              THEN [done |-> TRUE, threw |-> TRUE, value |-> NaN]
              ELSE [done |-> TRUE, threw |-> FALSE,
                    value |-> calculatePHM(call.gender, call.age, call.height,
                                           call.weight)]
    /\ UNCHANGED <<appVars, call>>

NextPHM == ApplyPHM

SpecPHM == InitPHM /\ [][NextPHM]_vars

\* The parsed biometrics of a donor or a recipient.
Profiles ==
    {[gender |-> g, age |-> a, height |-> h, weight |-> w] :
        g \in {"male", "female"},
        a \in {Fin(45000), Fin(50000)},
        h \in {Fin(180000), Fin(1800), Fin(175000)},
        w \in {Fin(65000), Fin(80000), Fin(81000), Fin(120000), Fin(0)}}

InitRatio ==
    /\ Constructed
    /\ engine = "v8"
    /\ call \in {[fn |-> "ratio", donor |-> d, recipient |-> r] :
                    d \in Profiles, r \in Profiles}
    /\ ret = NoRet

\* const donorPHM = calculatePHM(...donor); const recipientPHM =
\* calculatePHM(...recipient);
\* const phmRatio = calculatePHMRatio(donorPHM, recipientPHM);
ApplyRatio ==
    /\ call.fn = "ratio"
    /\ ~ret.done
    /\ LET donorPHM == calculatePHM(call.donor.gender, call.donor.age,
                                    call.donor.height, call.donor.weight)
           recipientPHM == calculatePHM(call.recipient.gender, call.recipient.age,
                                        call.recipient.height,
                                        call.recipient.weight)
       IN  ret' = [done |-> TRUE, donorPHM |-> donorPHM,
                   recipientPHM |-> recipientPHM,
                   phmRatio |-> calculatePHMRatio(donorPHM, recipientPHM)]
    /\ UNCHANGED <<appVars, call>>

NextRatio == ApplyRatio

SpecRatio == InitRatio /\ [][NextRatio]_vars

(***************************************************************************)
(* The ranking of recipient lists drawn from a pool                        *)
(***************************************************************************)

\* The rows an uploaded worksheet is made of: two recipients alike in all
\* but the id, a perfect size match, an undersized donor heart, two rows
\* with a non-numeric age and a small female recipient.
RankPool ==
    {Row("Q1", "male", "50", "175", "85", "O-"),
     Row("Q2", "male", "50", "175", "85", "O-"),
     Row("Q3", "male", "45", "180", "80", "A+"),
     Row("Q4", "male", "45", "175", "120", "O-"),
     Row("Q5", "male", "abc", "180", "80", "O-"),
     Row("Q6", "female", "50", "165", "65", "AB+"),
     Row("Q7", "male", "abc", "180", "80", "O-")}

\* The longest recipient list of the pool that is ranked.
MaxList == 4

\* The recipients state after the upload of a worksheet of pool rows.
RankLists ==
    UNION {{[i \in 1..n |-> RowData(l[i])] : l \in [1..n -> RankPool]} :
              n \in 1..MaxList}

\* The donor form filled in, with either blood type.
RankDonors ==
    {[name |-> "D", gender |-> "male", age |-> "45", height |-> "180",
      weight |-> "80", bloodType |-> b] : b \in {"O-", "A+"}}

\* The component with a recipient list loaded and the donor form filled in,
\* before the first calculation.
InitRank ==
    /\ recipients \in RankLists
    /\ donor \in RankDonors
    /\ matchResults = <<>>
    /\ isLoading = FALSE
    /\ error = ""
    /\ file = "list.xlsx"
    /\ pending = EmptyBag
    /\ engine \in Engines
    /\ call = NoCall
    /\ ret = NoRet

NextRank == handleCalculateMatches

SpecRank == InitRank /\ [][NextRank]_vars

(***************************************************************************)
(* Uploads of workbooks that take every exit of handleFileUpload           *)
(***************************************************************************)

\* A worksheet without a blood type column.
HeadersNoBloodType == AllHeaders \ {"bloodtype"}

\* The workbooks of the upload specification: the three of Workbooks, one
\* without the weight column, one with a header row only, one whose load
\* throws, and one without a blood type column.
UploadWorkbooks ==
    Workbooks \cup
    {[name |-> "noweight.xlsx", worksheet |-> TRUE, corrupt |-> FALSE,
      headers |-> AllHeaders \ {"weight"},
      rows |-> <<Row("R1", "male", "50", "175", Undefined, "O-")>>],
     [name |-> "norows.xlsx", worksheet |-> TRUE, corrupt |-> FALSE,
      headers |-> AllHeaders, rows |-> <<>>],
     [name |-> "corrupt.xlsx", worksheet |-> FALSE, corrupt |-> TRUE,
      headers |-> {}, rows |-> <<>>],
     [name |-> "noblood.xlsx", worksheet |-> TRUE, corrupt |-> FALSE,
      headers |-> HeadersNoBloodType,
      rows |-> <<Row("R4", "male", "45", "175", "120", Undefined),
                 Row("R1", "male", "50", "175", "85", Undefined)>>]}

\* The component with the donor form filled in and nothing uploaded.
InitUpload ==
    /\ recipients = <<>>
    /\ donor = [name |-> "D", gender |-> "male", age |-> "45",
                height |-> "180", weight |-> "80", bloodType |-> "O-"]
    /\ matchResults = <<>>
    /\ isLoading = FALSE
    /\ error = ""
    /\ file = Undefined
    /\ pending = EmptyBag
    /\ engine \in Engines
    /\ call = NoCall
    /\ ret = NoRet

NextUpload ==
    \/ \E f \in UploadWorkbooks \cup {NoFile} : handleFileUploadStart(f)
    \/ \E f \in UploadWorkbooks : handleFileUploadFinish(f)
    \/ handleCalculateMatches

SpecUpload == InitUpload /\ [][NextUpload]_vars

(***************************************************************************)
(* Ranking under every donor blood type                                    *)
(***************************************************************************)

\* One row per blood type and one without: the Rhesus-positive ones with an
\* acceptable ratio for the donor below, the others with an undersized
\* donor heart.
BloodPool ==
    {Row("B1", "male", "50", "175", "85", "A+"),
     Row("B2", "male", "45", "175", "120", "A-"),
     Row("B3", "male", "50", "175", "85", "B+"),
     Row("B4", "male", "45", "175", "120", "B-"),
     Row("B5", "male", "50", "175", "85", "AB+"),
     Row("B6", "male", "45", "175", "120", "AB-"),
     Row("B7", "male", "50", "175", "85", "O+"),
     Row("B8", "male", "45", "175", "120", "O-"),
     Row("B9", "male", "45", "175", "120", Undefined)}

\* The longest list of these rows that is ranked.
MaxListBlood == 3

\* The recipients state after the upload of a worksheet of these rows.
BloodLists ==
    UNION {{[i \in 1..n |-> RowData(l[i])] : l \in [1..n -> BloodPool]} :
              n \in 1..MaxListBlood}

\* The donor form filled in, with each blood type of the select.
BloodDonors ==
    {[name |-> "D", gender |-> "male", age |-> "45", height |-> "180",
      weight |-> "80", bloodType |-> b] : b \in BloodTypeSet}

InitBlood ==
    /\ recipients \in BloodLists
    /\ donor \in BloodDonors
    /\ matchResults = <<>>
    /\ isLoading = FALSE
    /\ error = ""
    /\ file = "list.xlsx"
    /\ pending = EmptyBag
    /\ engine \in Engines
    /\ call = NoCall
    /\ ret = NoRet

NextBlood == handleCalculateMatches

SpecBlood == InitBlood /\ [][NextBlood]_vars

(***************************************************************************)
(* Ranking recipients that have no blood type                              *)
(***************************************************************************)

\* Rows of a worksheet without blood type column: two with identical
\* biometrics, the donor's own biometrics, an undersized donor heart, an
\* age that is no number, and an oversized donor heart.
NoBloodPool ==
    {Row("N1", "male", "50", "175", "85", Undefined),
     Row("N2", "male", "50", "175", "85", Undefined),
     Row("N3", "male", "45", "180", "80", Undefined),
     Row("N4", "male", "45", "175", "120", Undefined),
     Row("N5", "male", "abc", "180", "80", Undefined),
     Row("N6", "female", "50", "165", "65", Undefined)}

\* The longest list of these rows that is ranked.
MaxListNoBlood == 4

\* The recipients state after the upload of a worksheet of these rows.
NoBloodLists ==
    UNION {{[i \in 1..n |-> RowData(l[i])] : l \in [1..n -> NoBloodPool]} :
              n \in 1..MaxListNoBlood}

InitNoBlood ==
    /\ recipients \in NoBloodLists
    /\ donor = [name |-> "D", gender |-> "male", age |-> "45",
                height |-> "180", weight |-> "80", bloodType |-> "O-"]
    /\ matchResults = <<>>
    /\ isLoading = FALSE
    /\ error = "Warning: No \"bloodType\" column found. Blood type matching will be disabled."
    /\ file = "noblood.xlsx"
    /\ pending = EmptyBag
    /\ engine \in Engines
    /\ call = NoCall
    /\ ret = NoRet

NextNoBlood == handleCalculateMatches

SpecNoBlood == InitNoBlood /\ [][NextNoBlood]_vars

(***************************************************************************)
(* The ABO-only version ranking recipient lists drawn from a pool          *)
(***************************************************************************)

\* The row object the ABO-only upload makes of a worksheet row: status is
\* the cell's value (absent for an empty cell), dateadded the Date made of
\* the cell (absent for an empty cell).
RowABO(id, gender, age, height, weight, bloodType, status, dateadded) ==
    [id |-> id, name |-> id, gender |-> gender, age |-> age, height |-> height,
     weight |-> weight, bloodType |-> bloodType, status |-> status,
     dateadded |-> dateadded]

\* The rows of the waiting lists: every blood type, statuses 1, 5, 7, 0 and
\* none, an earlier and a later date and none, two undersized donor hearts
\* and a row without gender.
ABOPool ==
    {RowABO("A1", "male", "45", "180", "80", "A+", "1", Date(Fin(2))),
     RowABO("A2", "male", "45", "180", "80", "A-", "1", Date(Fin(1))),
     RowABO("A3", "male", "45", "180", "80", "A+", "1", NoDate),
     RowABO("A4", "male", "45", "175", "120", "O+", "5", Date(Fin(1))),
     RowABO("A5", "male", "45", "180", "80", "O-", "0", Date(Fin(1))),
     RowABO("A6", "male", "45", "180", "80", "B+", Undefined, Date(Fin(2))),
     RowABO("A7", "male", "45", "175", "120", "B-", "7", Date(Fin(1))),
     RowABO("A8", "female", "50", "165", "65", "AB+", "5", Date(Fin(2))),
     RowABO("A9", "male", "45", "180", "80", "AB-", "1", Date(Fin(1))),
     RowABO("A10", Undefined, "45", "180", "80", "A+", "1", Date(Fin(1)))}

\* The longest waiting list the ABO-only version ranks.
MaxListABO == 3

ABOLists == UNION {[1..n -> ABOPool] : n \in 1..MaxListABO}

\* The donor form filled in, with each of the blood types of its select.
ABODonors ==
    {[name |-> "D", gender |-> "male", age |-> "45", height |-> "180",
      weight |-> "80", bloodType |-> b] : b \in BloodTypeSet}

\* The ABO-only component with a waiting list loaded and the donor form
\* filled in, before the first calculation.
InitABO ==
    /\ recipients \in ABOLists
    /\ donor \in ABODonors
    /\ matchResults = <<>>
    /\ isLoading = FALSE
    /\ error = ""
    /\ file = "list.xlsx"
    /\ pending = EmptyBag
    /\ engine \in Engines
    /\ call = NoCall
    /\ ret = NoRet

NextABO == handleCalculateMatchesABO

SpecABO == InitABO /\ [][NextABO]_vars

(***************************************************************************)
(* Claims about the pure functions                                         *)
(***************************************************************************)

\* The ABO group and the Rhesus sign of a blood type literal.
ABOGroup(t) ==
    CASE t \in {"A+", "A-"} -> "A"
      [] t \in {"B+", "B-"} -> "B"
      [] t \in {"AB+", "AB-"} -> "AB"
      [] t \in {"O+", "O-"} -> "O"

RhesusSign(t) == IF t \in {"A+", "B+", "AB+", "O+"} THEN "+" ELSE "-"

\* The standard subset rule: O into any; A into A, AB; B into B, AB; AB
\* into AB.
Transfusable(d, r) ==
    \/ d = "O"
    \/ d = "A" /\ r \in {"A", "AB"}
    \/ d = "B" /\ r \in {"B", "AB"}
    \/ d = "AB" /\ r = "AB"

\* C2: for every pair of the 8 blood types, isBloodTypeCompatible(donor,
\* recipient) returns true iff the donor's ABO group is transfusable into
\* the recipient's and the donor is Rh- or the recipient is Rh+; an O- donor
\* is compatible with every recipient and an AB+ recipient accepts every
\* donor.
C2_FullChart ==
    (call.fn = "compat" /\ ret.done
        /\ call.donorBloodType \in BloodTypeSet
        /\ call.recipientBloodType \in BloodTypeSet)
    => LET d == call.donorBloodType
           r == call.recipientBloodType
       IN  /\ ~ret.threw
           /\ ret.value <=> (/\ Transfusable(ABOGroup(d), ABOGroup(r))
                             /\ (RhesusSign(d) = "-" \/ RhesusSign(r) = "+"))
           /\ d = "O-" => ret.value
           /\ r = "AB+" => ret.value

\* C2 witness: the lookup has answered "incompatible" for an A+ donor and an
\* AB- recipient (ABO transfusable, Rhesus not).
C2_Witness ==
    /\ call.fn = "compat" /\ ret.done
    /\ call.donorBloodType = "A+" /\ call.recipientBloodType = "AB-"
    /\ ~ret.threw /\ ~ret.value

\* C8: for every pair in which either blood type is absent, empty or not
\* one of the 8 literals, isBloodTypeCompatible returns false and raises no
\* error.
C8_LookupNeverFails ==
    (call.fn = "compat" /\ ret.done
        /\ (call.donorBloodType \notin BloodTypeSet
              \/ call.recipientBloodType \notin BloodTypeSet))
    => (~ret.threw /\ ~ret.value)

\* The six boundaries and the seven bands of the claim, in order.
Boundaries == {863, 929, 983, 1039, 1111, 1221}

Bands ==
    <<"U3 - Severely Undersized", "U2 - Moderately Undersized",
      "U1 - Mildly Undersized", "R - Well-Matched", "O1 - Mildly Oversized",
      "O2 - Moderately Oversized", "O3 - Severely Oversized">>

\* C9: determineMatchCategory is total and the bands leave no gap or
\* overlap: every ratio gets one of the seven categories, the band of a
\* number is the one above all the boundaries it has reached (so the
\* category is non-decreasing in the ratio and a ratio equal to a boundary is in
\* the upper band).
C9_BandsPartition ==
    (call.fn = "classify" /\ ret.done)
    => /\ \E i \in DOMAIN Bands : ret.matchCategory = Bands[i]
       /\ IsFin(call.phmRatio)
            => ret.matchCategory =
                 Bands[Cardinality({b \in Boundaries : b <= call.phmRatio.v}) + 1]
       /\ call.phmRatio = Infinity => ret.matchCategory = Bands[7]

\* C9 witness: the boundary 0.983 has been classified, as R.
C9_Witness ==
    /\ call.fn = "classify" /\ ret.done
    /\ call.phmRatio = Fin(983)
    /\ ret.matchCategory = "R - Well-Matched"

\* C10: determineRiskLevel returns High Risk iff the ratio is below 0.86 and
\* Acceptable iff it is at least 0.86 (0.86 itself is Acceptable), for every
\* ratio that is a number.
C10_RiskThreshold ==
    (call.fn = "classify" /\ ret.done /\ ~IsNaN(call.phmRatio))
    => LET below == IsFin(call.phmRatio) /\ call.phmRatio.v < 860
       IN  /\ ret.riskLevel = "High Risk" <=> below
           /\ ret.riskLevel = "Acceptable" <=> ~below

\* C10 witness: the boundary 0.86 has been classified, as Acceptable.
C10_Witness ==
    /\ call.fn = "classify" /\ ret.done
    /\ call.phmRatio = Fin(860)
    /\ ret.riskLevel = "Acceptable"

\* The PHM formula with given coefficients, for positive finite arguments.
PHMWith(clvm, crvm, age, height, weight) ==
    LET hM == IF height.v > 3 * Scale THEN Fin(height.v \div 100) ELSE height
    IN  Fin(((((clvm * PowTable[<<hM.v, 540>>]) \div Scale)
                * PowTable[<<weight.v, 610>>]) \div Scale)
            + ((((((crvm * PowTable[<<age.v, -320>>]) \div Scale)
                    * PowTable[<<hM.v, 1135>>]) \div Scale)
                * PowTable[<<weight.v, 315>>]) \div Scale))

Positive(x) == IsFin(x) /\ x.v > 0

\* C4: calculatePHM fails whenever age <= 0, height <= 0 or weight <= 0.
C4_NonPositiveRejected ==
    (call.fn = "phm" /\ ret.done
        /\ \E x \in {call.age, call.height, call.weight} : IsFin(x) /\ x.v <= 0)
    => ret.threw

\* C5: the female coefficients are used for every spelling of 'female', the
\* male coefficients for every spelling of 'male', and every other gender
\* value is rejected.
C5_GenderHandling ==
    (call.fn = "phm" /\ ret.done)
    => /\ (call.gender \in {"female", "Female", "FEMALE"}
            /\ Positive(call.age) /\ Positive(call.height) /\ Positive(call.weight))
           => (~ret.threw /\ ret.value = PHMWith(6820, 10590, call.age,
                                                  call.height, call.weight))
       /\ (call.gender \in {"male", "Male", "MALE"}
            /\ Positive(call.age) /\ Positive(call.height) /\ Positive(call.weight))
           => (~ret.threw /\ ret.value = PHMWith(8250, 11250, call.age,
                                                  call.height, call.weight))
       /\ call.gender \notin {"female", "Female", "FEMALE", "male", "Male", "MALE"}
           => ret.threw

(***************************************************************************)
(* Claims about the handlers                                               *)
(***************************************************************************)

\* |phmRatio - 1| of a record.
Distance(m) == Abs(Sub(m.phmRatio, Fin(Scale)))

\* a is worse than b under the primary chain: at the first stage where they
\* differ, a is the incompatible, the non-exact, the High Risk or the more
\* distant one.
Worse(a, b) ==
    IF a.bloodTypeMatch # b.bloodTypeMatch THEN b.bloodTypeMatch
    ELSE IF a.exactBloodTypeMatch # b.exactBloodTypeMatch THEN b.exactBloodTypeMatch
    ELSE IF a.riskLevel # b.riskLevel THEN b.riskLevel = "Acceptable"
    ELSE Gt(Distance(a), Distance(b))

\* C1: in matchResults (the outcome of the last successful
\* handleCalculateMatches) no record is worse, under the primary chain, than
\* a record placed after it.
C1_PrimaryChain ==
    \A i \in DOMAIN matchResults : \A j \in DOMAIN matchResults :
        i < j => ~Worse(matchResults[i], matchResults[j])

\* A recipient record with a missing gender or a missing or non-numeric age,
\* height or weight.
Malformed(r) ==
    \/ Falsy(r.gender)
    \/ \E fld \in {"age", "height", "weight"} : IsNaN(ParseFloat(r[fld]))

\* The donor passes the validation of a run.
DonorComplete(d) == missingFields(d) = <<>> /\ notNumbers(d) = <<>>

\* C3: a run over a batch with a malformed recipient is not aborted: the
\* malformed record is skipped and every well-formed recipient of the batch
\* appears in the ranked output.
C3_MalformedSkipped ==
    [][(handleCalculateMatches /\ DonorComplete(donor) /\ recipients # <<>>)
        => {matchResults'[i].id : i \in DOMAIN matchResults'}
             = {recipients[i].id : i \in {k \in DOMAIN recipients :
                                              ~Malformed(recipients[k])}}]_vars

\* The donor's gender, age, height or weight is missing, or parseFloat reads
\* no number from the age, height or weight.
DonorInvalid(d) ==
    \/ \E fld \in {"gender", "age", "height", "weight"} : d[fld] = ""
    \/ \E fld \in {"age", "height", "weight"} : IsNaN(ParseFloat(d[fld]))

ValidationMessages ==
    {"Please fill in all donor fields", "Donor age must be a number",
     "Donor height must be a number", "Donor weight must be a number"}

\* C6: with a donor whose gender, age, height or weight is missing or whose
\* age, height or weight is not a number, handleCalculateMatches only
\* reports a validation error: matchResults and isLoading stay as they were.
C6_DonorFailFast ==
    [][(handleCalculateMatches /\ DonorInvalid(donor))
        => /\ error' \in ValidationMessages
           /\ matchResults' = matchResults
           /\ isLoading' = isLoading]_vars

\* C6 witness: results of an earlier run are on display, the donor's age has
\* since been made non-numeric and the run over it has reported so.
C6_Witness ==
    /\ matchResults # <<>>
    /\ donor.age = "abc"
    /\ error = "Donor age must be a number"

\* The donor has a name and complete, numeric biometrics.
BiometricsComplete(d) ==
    /\ \A fld \in {"name", "gender", "age", "height", "weight"} : d[fld] # ""
    /\ \A fld \in {"age", "height", "weight"} : ~IsNaN(ParseFloat(d[fld]))

\* C7 as stated: a run whose donor has complete biometrics but no blood
\* type succeeds, with a record for every recipient, each marked
\* incompatible, and no error.
C7_BloodTypeOptional ==
    [][(handleCalculateMatches /\ BiometricsComplete(donor)
            /\ donor.bloodType = "" /\ recipients # <<>>
            /\ throwing(donor, recipients) = <<>>)
        => /\ error' = ""
           /\ Len(matchResults') = Len(recipients)
           /\ \A i \in DOMAIN matchResults' : ~matchResults'[i].bloodTypeMatch]_vars

\* C7 amended: the donor's blood type is required: a run whose donor has no
\* blood type reports the fill-in-all-fields error and leaves matchResults as
\* it was.
C7_BloodTypeRequired ==
    [][(handleCalculateMatches /\ donor.bloodType = "")
        => /\ error' = "Please fill in all donor fields"
           /\ matchResults' = matchResults]_vars

\* C7 witness: a donor complete but for the blood type, a loaded recipient
\* list, and the run has reported the missing field.
C7_Witness ==
    /\ BiometricsComplete(donor)
    /\ donor.bloodType = ""
    /\ recipients # <<>>
    /\ error = "Please fill in all donor fields"
    /\ matchResults = <<>>

(***************************************************************************)
(* Claims about the ranker                                                 *)
(***************************************************************************)

\* The sort key of a record: what the stages of the chain compare.
SortKey(m) ==
    [bloodTypeMatch |-> m.bloodTypeMatch,
     exactBloodTypeMatch |-> m.exactBloodTypeMatch,
     riskLevel |-> m.riskLevel,
     distance |-> Distance(m)]

\* The ids of a list of recipients or records, in order.
Ids(seq) == [i \in DOMAIN seq |-> seq[i].id]

C12_Idempotent ==
    matchResults # <<>> => SortResults(engine, matchResults) = matchResults

\* C12 witness: a ranked list that is not in the order of its input.
C12_Witness ==
    /\ Len(matchResults) = MaxList
    /\ Ids(matchResults) # Ids(recipients)
    /\ SortResults(engine, matchResults) = matchResults

\* C13: the README's order of the full-chart version: no record is placed
\* before one that beats it on blood-type compatibility, then on risk level,
\* then on closeness of the ratio to 1.0; so among records with the same
\* compatibility verdict no High Risk record is before an Acceptable one.
C13_ReadmeOrder ==
    \A i \in DOMAIN matchResults : \A j \in DOMAIN matchResults :
        i < j =>
            LET a == matchResults[i]
                b == matchResults[j]
            IN  IF a.bloodTypeMatch # b.bloodTypeMatch THEN a.bloodTypeMatch
                ELSE IF a.riskLevel # b.riskLevel THEN a.riskLevel = "Acceptable"
                ELSE ~Gt(Distance(a), Distance(b))

(***************************************************************************)
(* Claims about the ABO-only version                                       *)
(***************************************************************************)

\* a is worse than b under the documented key of the ABO-only version: at
\* the first stage where they differ, a is the High Risk, the
\* ABO-incompatible, the higher-status or the later-dated one.
WorseABO(a, b) ==
    IF a.riskLevel # b.riskLevel THEN b.riskLevel = "Acceptable"
    ELSE IF a.aboMatch # b.aboMatch THEN b.aboMatch
    ELSE IF a.status # b.status THEN Gt(a.status, b.status)
    ELSE Gt(a.dateAdded.time, b.dateAdded.time)

\* C14: in the ABO-only version no record of matchResults is worse, under
\* the key (risk level, aboMatch, status ascending, dateAdded ascending),
\* than a record placed after it.
C14_StatusDateOrder ==
    \A i \in DOMAIN matchResults : \A j \in DOMAIN matchResults :
        i < j => ~WorseABO(matchResults[i], matchResults[j])

\* C15 as stated: the alternate ordering compares ABO compatibility before
\* risk level: no ABO-incompatible record is placed before an ABO-compatible
\* one, and among records of the same ABO verdict no High Risk record is
\* placed before an Acceptable one.
C15_ABOBeforeRisk ==
    \A i \in DOMAIN matchResults : \A j \in DOMAIN matchResults :
        i < j =>
            LET a == matchResults[i]
                b == matchResults[j]
            IN  IF a.aboMatch # b.aboMatch THEN a.aboMatch
                ELSE ~(a.riskLevel = "High Risk" /\ b.riskLevel = "Acceptable")

\* C15 amended: the alternate ordering compares risk level before ABO
\* compatibility: no High Risk record is placed before an Acceptable one (so
\* an ABO-incompatible Acceptable recipient is ranked before an
\* ABO-compatible High Risk recipient), and among records of the same risk
\* level no ABO-incompatible record is placed before an ABO-compatible one.
C15_RiskBeforeABO ==
    \A i \in DOMAIN matchResults : \A j \in DOMAIN matchResults :
        i < j =>
            LET a == matchResults[i]
                b == matchResults[j]
            IN  IF a.riskLevel # b.riskLevel THEN a.riskLevel = "Acceptable"
                ELSE ~(~a.aboMatch /\ b.aboMatch)

\* C15 witness: the ABO-compatible High Risk recipient A7 was listed before
\* the ABO-incompatible Acceptable recipient A1 and is ranked after it.
C15_Witness ==
    /\ donor.bloodType = "B-"
    /\ Ids(recipients) = <<"A7", "A1">>
    /\ Ids(matchResults) = <<"A1", "A7">>
    /\ matchResults[1].riskLevel = "Acceptable" /\ ~matchResults[1].aboMatch
    /\ matchResults[2].riskLevel = "High Risk" /\ matchResults[2].aboMatch

\* The built records of the current run with the Rhesus warnings removed.
WithoutWarnings ==
    [i \in DOMAIN recipients |->
        [BuildResultsABO(donor, recipients)[i] EXCEPT !.rhesusWarning = FALSE]]

\* C16: in every record, aboMatch is the ABO subset rule applied to the
\* groups of donor and recipient (so no Rhesus sign changes it),
\* rhesusWarning is true iff the recipient is Rh- and the donor Rh+, and the
\* warning is advisory: every recipient has its record and the records are
\* in the order they would have without the warnings.
C16_ABOOnlyPolicy ==
    matchResults # <<>> =>
        /\ \A i \in DOMAIN matchResults :
              LET m == matchResults[i]
              IN  m.bloodType \in BloodTypeSet =>
                    /\ m.aboMatch <=> Transfusable(ABOGroup(donor.bloodType),
                                                    ABOGroup(m.bloodType))
                    /\ m.rhesusWarning <=> (/\ RhesusSign(m.bloodType) = "-"
                                            /\ RhesusSign(donor.bloodType) = "+")
        /\ Len(matchResults) = Len(recipients)
        /\ Ids(matchResults) = Ids(SortResults(engine, WithoutWarnings))

\* C16 witness: an ABO-compatible record with a Rhesus warning is ranked
\* before a record without one.
C16_Witness ==
    \E i \in DOMAIN matchResults : \E j \in DOMAIN matchResults :
        /\ i < j
        /\ matchResults[i].aboMatch /\ matchResults[i].rhesusWarning
        /\ ~matchResults[j].rhesusWarning

\* C17: every record's status is the integer its recipient supplies, and 7
\* when the recipient supplies none; its dateAdded is the recipient's date.
C17_StatusCarriedThrough ==
    \A i \in DOMAIN matchResults : \A k \in DOMAIN recipients :
        recipients[k].id = matchResults[i].id =>
            /\ matchResults[i].status =
                    (IF recipients[k].status = Undefined THEN Fin(7 * Scale)
                     ELSE Fin(Numerals[recipients[k].status]))
            /\ recipients[k].dateadded.k = "date"
                    => matchResults[i].dateAdded = recipients[k].dateadded

\* The record list is a permutation of the records built from the
\* recipients: every id as often as in the list.
PermutationOf(results, rs) ==
    /\ Len(results) = Len(rs)
    /\ \A r \in ABOPool :
          Cardinality({i \in DOMAIN results : results[i].id = r.id})
            = Cardinality({k \in DOMAIN rs : rs[k].id = r.id})

\* No record is placed before one that beats it at the risk, the ABO or the
\* status stage.
StagesRespected(results) ==
    \A i \in DOMAIN results : \A j \in DOMAIN results :
        i < j =>
            LET a == results[i]
                b == results[j]
            IN  IF a.riskLevel # b.riskLevel THEN a.riskLevel = "Acceptable"
                ELSE IF a.aboMatch # b.aboMatch THEN a.aboMatch
                ELSE ~Gt(a.status, b.status)

\* C18: a run over a list in which some recipient has no dateAdded (every
\* recipient having a gender) does not fail: it ends with no error message
\* or with the Rhesus warning only, and matchResults is a permutation of the
\* built records that respects the risk, ABO and status stages.
C18_MissingDateRanked ==
    [][(/\ handleCalculateMatchesABO
        /\ \E k \in DOMAIN recipients : recipients[k].dateadded = NoDate
        /\ \A k \in DOMAIN recipients : recipients[k].gender # Undefined)
        => /\ error' \in {""} \cup {RhesusWarningMessage(n) : n \in 1..Len(recipients)}
           /\ ~isLoading'
           /\ PermutationOf(matchResults', recipients)
           /\ StagesRespected(matchResults')]_vars

\* C18 witness: the list A4, A3, A1 with A3 undated has been ranked: the
\* High Risk A4 went last and A3 stayed before A1.
C18_Witness ==
    /\ Ids(recipients) = <<"A4", "A3", "A1">>
    /\ Ids(matchResults) = <<"A3", "A1", "A4">>
    /\ matchResults[1].dateAdded = InvalidDate

(***************************************************************************)
(* Claims about the PHM formula                                            *)
(***************************************************************************)

\* The height in metres (Scale units) the height rule reads a value as.
MetresRead(height) ==
    IF height.v > 3 * Scale THEN Fin(height.v \div 100) ELSE height

\* C19: a height greater than 3 is divided by 100 before use and a height
\* of 3 or less is used as given: the PHM of a valid profile is the formula
\* at the height in metres so read (180 and 1.8 give the same PHM, 3 is 3
\* metres).
C19_HeightUnits ==
    (call.fn = "phm" /\ ret.done
        /\ call.gender \in {"male", "Male", "MALE", "female", "Female", "FEMALE"}
        /\ Positive(call.age) /\ Positive(call.height) /\ Positive(call.weight))
    => /\ ~ret.threw
       /\ ret.value =
            (IF call.gender \in {"female", "Female", "FEMALE"}
             THEN PHMWith(6820, 10590, call.age, MetresRead(call.height), call.weight)
             ELSE PHMWith(8250, 11250, call.age, MetresRead(call.height), call.weight))

\* C19 witness: the PHM of a male of 45 years and 80 kg with height 3 has
\* been computed, at 3 metres (262.038 g in the model's fixed point).
C19_Witness ==
    /\ call.fn = "phm" /\ ret.done
    /\ call.gender = "male" /\ call.age = Fin(45000)
    /\ call.height = Fin(3000) /\ call.weight = Fin(80000)
    /\ ret.value = Fin(262038)

\* A valid biometric profile: known gender, age, height and weight > 0.
ValidProfile(p) ==
    /\ p.gender \in {"male", "female"}
    /\ Positive(p.age) /\ Positive(p.height) /\ Positive(p.weight)

\* C20: the PHM of every valid profile is strictly positive, of two valid
\* profiles that differ only in weight the heavier has the strictly larger
\* PHM, and the ratio of the PHMs of two valid profiles is strictly
\* positive.
C20_PositiveMonotone ==
    (call.fn = "ratio" /\ ret.done)
    => /\ ValidProfile(call.donor) => Positive(ret.donorPHM)
       /\ ValidProfile(call.recipient) => Positive(ret.recipientPHM)
       /\ (/\ ValidProfile(call.donor) /\ ValidProfile(call.recipient)
           /\ call.donor.gender = call.recipient.gender
           /\ call.donor.age = call.recipient.age
           /\ call.donor.height = call.recipient.height
           /\ call.donor.weight.v < call.recipient.weight.v)
          => Lt(ret.donorPHM, ret.recipientPHM)
       /\ (ValidProfile(call.donor) /\ ValidProfile(call.recipient))
          => Positive(ret.phmRatio)

\* C20 witness: a donor of 80 kg and a recipient of 81 kg, alike otherwise:
\* the recipient's PHM is the larger and the ratio is 0.992.
C20_Witness ==
    /\ call.fn = "ratio" /\ ret.done
    /\ call.donor = [gender |-> "male", age |-> Fin(45000),
                     height |-> Fin(180000), weight |-> Fin(80000)]
    /\ call.recipient = [call.donor EXCEPT !.weight = Fin(81000)]
    /\ Lt(ret.donorPHM, ret.recipientPHM)
    /\ ret.phmRatio = Fin(992)

(***************************************************************************)
(* Claims about the run as a whole                                         *)
(***************************************************************************)

\* How often an id occurs in a list of recipients or records.
Occurrences(seq, id) == Cardinality({i \in DOMAIN seq : seq[i].id = id})

\* C21: a handleCalculateMatches that succeeds (it ends with no error
\* message) over N recipients leaves N records in matchResults, every
\* recipient id as often as in the input, each record the one built from a
\* recipient, all with the donorPHM computed from the donor.
C21_OneRecordPerRecipient ==
    [][(handleCalculateMatches /\ error' = "")
        => /\ Len(matchResults') = Len(recipients)
           /\ \A k \in DOMAIN recipients :
                 Occurrences(matchResults', recipients[k].id)
                   = Occurrences(recipients, recipients[k].id)
           /\ \A i \in DOMAIN matchResults' :
                 /\ \E k \in DOMAIN recipients :
                       matchResults'[i] = BuildResults(donor, recipients)[k]
                 /\ matchResults'[i].donorPHM
                       = calculatePHM(donor.gender, ParseFloat(donor.age),
                                      ParseFloat(donor.height),
                                      ParseFloat(donor.weight))]_vars

\* C21 witness: a list of four with Q4 twice has been ranked into another
\* order, four records with Q4 twice.
C21_Witness ==
    /\ Ids(recipients) = <<"Q4", "Q1", "Q4", "Q3">>
    /\ Len(matchResults) = 4
    /\ Ids(matchResults) # Ids(recipients)
    /\ Occurrences(matchResults, "Q4") = 2
    /\ error = ""

\* C22: handleCalculateMatches changes neither the recipients list (its
\* order and every recipient's fields stay as they were) nor the donor,
\* whether it ranks, rejects the donor or reports a thrown error.
C22_InputReadOnly ==
    [][handleCalculateMatches
        => (recipients' = recipients /\ donor' = donor)]_vars

\* C22 witness: a ranking that put the second recipient first has left the
\* recipients in their uploaded order.
C22_Witness ==
    /\ Ids(recipients) = <<"Q6", "Q4">>
    /\ Ids(matchResults) = <<"Q4", "Q6">>
    /\ recipients[1] = RowData(Row("Q6", "female", "50", "165", "65", "AB+"))

\* C23: results are never stale: whenever matchResults is non-empty it is
\* the ranking of the records computed from the donor values and the
\* recipients list held in state, which are what generatePDF prints beside
\* matchResults[1].donorPHM.
C23_NeverStale ==
    matchResults # <<>>
        => /\ DonorComplete(donor)
           /\ recipients # <<>>
           /\ throwing(donor, recipients) = <<>>
           /\ matchResults
                = SortResults(engine, BuildResults(donor, recipients))

(***************************************************************************)
(* Claims about the upload                                                 *)
(***************************************************************************)

\* The upload of workbook f reaches setRecipients.
Loadable(f) ==
    /\ ~f.corrupt
    /\ f.worksheet
    /\ \A i \in DOMAIN requiredColumns : requiredColumns[i] \in f.headers
    /\ f.rows # <<>>

\* The recipients list the upload of workbook f sets.
ParsedRecipients(f) == [r \in DOMAIN f.rows |-> RowData(f.rows[r])]

\* C24: once no upload is pending, the recipients list is the one parsed
\* from the file held in the file state (the most recently selected one),
\* whatever the order in which overlapping loads completed.
C24_LastSelectedWins ==
    \A f \in Workbooks :
        (pending = EmptyBag /\ file = f.name /\ Loadable(f))
            => recipients = ParsedRecipients(f)

\* C25: isLoading returns to false: once no upload is suspended at its
\* await (and Calculate, which runs to completion, has returned), isLoading
\* is false and the Calculate button is enabled, whichever exits the
\* handlers took.
C25_LoadingReset == pending = EmptyBag => ~isLoading

\* C25 witness: the upload whose load threw has finished, nothing is
\* pending and isLoading is false.
C25_Witness ==
    /\ pending = EmptyBag
    /\ file = "corrupt.xlsx"
    /\ error = "Error processing file: Unknown error"
    /\ ~isLoading

\* The step leaves the recipients and the results as they were.
KeepsLists == recipients' = recipients /\ matchResults' = matchResults

\* C26: an upload that ends in a failure path (load throws, no worksheet,
\* a required column missing, no data rows) changes neither recipients nor
\* matchResults, at its start and at its end, and ends with error set.
C26_FailedUploadKeepsLists ==
    [][\A f \in UploadWorkbooks :
          ~Loadable(f)
            => /\ handleFileUploadStart(f) => KeepsLists
               /\ handleFileUploadFinish(f) => (KeepsLists /\ error' # "")]_vars

\* C26 witness: after a ranking of the uploaded list the upload of the
\* workbook without data rows has failed, and list and results are kept.
C26_Witness ==
    /\ file = "norows.xlsx"
    /\ pending = EmptyBag
    /\ error = "The uploaded file contains no data."
    /\ Len(recipients) = 3
    /\ Len(matchResults) = 3

(***************************************************************************)
(* Claims relating the versions                                            *)
(***************************************************************************)

\* C27: for every pair of the 8 blood types the full-chart lookup
\* isBloodTypeCompatible(donor, recipient) answers true iff the ABO-only
\* version's isABOCompatible(donor, recipient) is true and its
\* hasRhesusMismatch(donor, recipient) is false.
C27_ChartIsABOMinusRhesus ==
    (call.fn = "compat" /\ ret.done
        /\ call.donorBloodType \in BloodTypeSet
        /\ call.recipientBloodType \in BloodTypeSet)
    => /\ ~ret.threw
       /\ ret.value
            <=> (/\ isABOCompatible(call.donorBloodType,
                                    call.recipientBloodType)
                 /\ ~hasRhesusMismatch(call.donorBloodType,
                                       call.recipientBloodType))

\* C27 witness: the lookup has answered "incompatible" for an O+ donor and
\* an A- recipient, a pair the ABO-only version calls compatible with a
\* Rhesus mismatch.
C27_Witness ==
    /\ call.fn = "compat" /\ ret.done
    /\ call.donorBloodType = "O+" /\ call.recipientBloodType = "A-"
    /\ ~ret.threw /\ ~ret.value
    /\ isABOCompatible("O+", "A-")
    /\ hasRhesusMismatch("O+", "A-")

(***************************************************************************)
(* Claims about the blood-type stages and the thresholds                   *)
(***************************************************************************)

\* The group the two blood-type flags put a record in: exact and
\* compatible, compatible only, neither, or exact but incompatible.
BloodGroupRank(r) ==
    CASE r.bloodTypeMatch /\ r.exactBloodTypeMatch -> 1
      [] r.bloodTypeMatch /\ ~r.exactBloodTypeMatch -> 2
      [] ~r.bloodTypeMatch /\ ~r.exactBloodTypeMatch -> 3
      [] ~r.bloodTypeMatch /\ r.exactBloodTypeMatch -> 4

\* C28: with a donor blood type among the 8 literals every record with
\* exactBloodTypeMatch also has bloodTypeMatch, and the ranked records come
\* in three groups in this order: exact, compatible and not exact,
\* incompatible.
C28_ExactIsCompatible ==
    donor.bloodType \in BloodTypeSet
        => /\ \A i \in DOMAIN matchResults :
                 matchResults[i].exactBloodTypeMatch
                    => matchResults[i].bloodTypeMatch
           /\ \A i, j \in DOMAIN matchResults :
                 i < j => /\ BloodGroupRank(matchResults[j]) <= 3
                          /\ BloodGroupRank(matchResults[i])
                                <= BloodGroupRank(matchResults[j])

\* C28 witness: an A- donor's ranking of an O- (incompatible), an AB-
\* (compatible) and an A- (exact) recipient, uploaded in this order, has
\* put the exact one first and the incompatible one last.
C28_Witness ==
    /\ donor.bloodType = "A-"
    /\ Ids(recipients) = <<"B8", "B6", "B2">>
    /\ Ids(matchResults) = <<"B2", "B6", "B8">>
    /\ BloodGroupRank(matchResults[1]) = 1
    /\ BloodGroupRank(matchResults[2]) = 2
    /\ BloodGroupRank(matchResults[3]) = 3

\* C29: every ratio classified High Risk is in category U3; every ratio r
\* with 0.86 <= r < 0.863 is in category U3 with risk level Acceptable, so
\* the converse fails.
C29_ThresholdsNested ==
    (call.fn = "classify" /\ ret.done)
    => /\ ret.riskLevel = "High Risk"
            => ret.matchCategory = "U3 - Severely Undersized"
       /\ (IsFin(call.phmRatio) /\ 860 <= call.phmRatio.v
                                /\ call.phmRatio.v < 863)
            => /\ ret.matchCategory = "U3 - Severely Undersized"
               /\ ret.riskLevel = "Acceptable"

\* C29 witness: the ratio 0.861 has been classified U3 and Acceptable.
C29_Witness ==
    /\ call.fn = "classify" /\ ret.done
    /\ call.phmRatio = Fin(861)
    /\ ret.matchCategory = "U3 - Severely Undersized"
    /\ ret.riskLevel = "Acceptable"

\* A full-chart record as the first version builds it: without the two
\* blood-type flags.
WithoutBloodFlags(r) ==
    [fld \in DOMAIN r \ {"bloodTypeMatch", "exactBloodTypeMatch"} |-> r[fld]]

\* C30: when every record has bloodTypeMatch = false and
\* exactBloodTypeMatch = false (no recipient has a blood type), the order
\* the full-chart comparator produces is the order the first version's
\* comparator (risk level, then |phmRatio - 1|) produces on the same
\* records.
C30_FallsBackToFirstVersion ==
    (/\ matchResults # <<>>
     /\ \A i \in DOMAIN matchResults :
           ~matchResults[i].bloodTypeMatch
             /\ ~matchResults[i].exactBloodTypeMatch)
    => [i \in DOMAIN matchResults |-> WithoutBloodFlags(matchResults[i])]
         = SortResults(engine,
               [i \in DOMAIN recipients |->
                   WithoutBloodFlags(BuildResults(donor, recipients)[i])])

\* C30 witness: four recipients without blood type, uploaded High Risk
\* first, then the oversized, then the two near 1.0, have been ranked with
\* the High Risk one last.
C30_Witness ==
    /\ Ids(recipients) = <<"N4", "N6", "N1", "N3">>
    /\ Ids(matchResults) = <<"N3", "N1", "N6", "N4">>
    /\ \A i \in DOMAIN matchResults :
          ~matchResults[i].bloodTypeMatch /\ ~matchResults[i].exactBloodTypeMatch
    /\ \A i \in DOMAIN recipients : recipients[i].bloodType = Undefined

====
